---- MODULE Spec2Model ----
(***************************************************************************)
(* The in-memory store (MemStorage) of the bot dashboard and the REST      *)
(* handlers that operate on it.                                            *)
(*                                                                         *)
(* A handler is an async function.  Every MemStorage method body is        *)
(* synchronous, so the promise it returns is already settled: the code     *)
(* from the start of a handler to its first `await`, and from one `await`  *)
(* to the next, runs without interruption.  The continuation after an      *)
(* `await` of a settled promise is a microtask, and the microtask queue is *)
(* emptied before the runtime delivers the next request.  Hence            *)
(*   - handlers dispatched in the same turn interleave at their awaits;    *)
(*   - no new handler starts while continuations are pending (draining).   *)
(***************************************************************************)
EXTENDS Integers, Sequences, FiniteSets, TLC

VARIABLES
    commands,           \* MemStorage.commands: the Map, as its entries in insertion order
    logs,               \* MemStorage.logs: the array
    botStats,           \* MemStorage.botStats: <<>> (undefined) or <<record>>
    commandsIdCounter,  \* MemStorage.commandsIdCounter
    logsIdCounter,      \* MemStorage.logsIdCounter
    now,                \* the clock read by new Date()
    bot,                \* whether getDiscordClient() yields a client
    inflight,           \* handlers suspended at an await, with their locals
    draining,           \* continuations are being run; no request is delivered
    issued,             \* history: the ids createCommand has returned, oldest first
    last,               \* history: the most recent storage call or response
    ops                 \* history: number of requests and clock ticks so far

vars == <<commands, logs, botStats, commandsIdCounter, logsIdCounter, now, bot,
          inflight, draining, issued, last, ops>>

store == <<commands, logs, botStats, commandsIdCounter, logsIdCounter>>

\* the store's contents, as remembered in `last`
Snapshot ==
    [commands |-> commands, logs |-> logs, botStats |-> botStats,
     commandsIdCounter |-> commandsIdCounter, logsIdCounter |-> logsIdCounter]

(***************************************************************************)
(* Bounds of the model.                                                    *)
(***************************************************************************)
MaxOps == 3          \* requests and ticks in the registry specification
MaxUpdateOps == 2    \* requests and ticks in the update specification
MaxParamOps == 2     \* requests and ticks in the id-parameter specification
MaxLogOps == 4       \* requests and ticks in the log specification
MaxSimOps == 3       \* requests in the simulator specification
MaxHelpOps == 4      \* requests in the help specification
MaxLen == 2          \* length of an :id path parameter
MaxLimitLen == 1     \* length of a ?limit= query value
MaxInflight == 2     \* handlers dispatched in one turn

(***************************************************************************)
(* Sequence helpers for Map and Array operations.                          *)
(***************************************************************************)
RECURSIVE IndexOfId(_, _, _)
\* position of the Map entry with key id, searching from i; 0 if there is none
IndexOfId(m, id, i) ==
    IF i > Len(m) THEN 0
    ELSE IF m[i].id = id THEN i
    ELSE IndexOfId(m, id, i + 1)

RECURSIVE IndexOfName(_, _, _)
\* Array.prototype.find(cmd => cmd.name === name): position of the first match; 0 if none
IndexOfName(m, name, i) ==
    IF i > Len(m) THEN 0
    ELSE IF m[i].name = name THEN i
    ELSE IndexOfName(m, name, i + 1)

Remove(s, i) == [k \in 1..(Len(s) - 1) |-> IF k < i THEN s[k] ELSE s[k + 1]]

Range(s) == {s[i] : i \in DOMAIN s}

Min(a, b) == IF a < b THEN a ELSE b
Max(a, b) == IF a > b THEN a ELSE b

\* Map.prototype.get
MapGet(m, id) ==
    LET i == IndexOfId(m, id, 1)
    IN IF i = 0 THEN <<>> ELSE <<m[i]>>

\* Map.prototype.set: an existing key keeps its position, a new key goes last
MapSet(m, id, v) ==
    LET i == IndexOfId(m, id, 1)
    IN IF i = 0 THEN Append(m, v) ELSE [m EXCEPT ![i] = v]

\* Map.prototype.delete: the map without the key, and whether the key was present
MapDelete(m, id) ==
    LET i == IndexOfId(m, id, 1)
    IN IF i = 0 THEN [map |-> m, had |-> FALSE]
       ELSE [map |-> Remove(m, i), had |-> TRUE]

\* object spread { ...a, ...b }: b's own fields win, a's other fields are kept
Spread(a, b) ==
    [f \in (DOMAIN a) \union (DOMAIN b) |-> IF f \in DOMAIN b THEN b[f] ELSE a[f]]

(***************************************************************************)
(* MemStorage.                                                             *)
(***************************************************************************)
InsertFields == {"name", "description", "usage", "active"}

defaultCommands ==
    << [name |-> "ping",
        description |-> "Checks the bot's response time and health status.",
        usage |-> "/ping", active |-> TRUE],
       [name |-> "help",
        description |-> "Displays a list of available commands and their usage.",
        usage |-> "/help [command]", active |-> TRUE],
       [name |-> "uptime",
        description |-> "Shows how long the bot has been online without interruption.",
        usage |-> "/uptime", active |-> TRUE],
       [name |-> "stats",
        description |-> "Displays bot statistics including servers, users, and commands.",
        usage |-> "/stats", active |-> TRUE] >>

\* a createCommand that numbers the new command by the size of the Map
createCommandBySize(m, counter, command, t) ==
    LET id == Len(m) + 1
        newCommand == Spread(Spread([id |-> id], command), [createdAt |-> t])
    IN [map |-> MapSet(m, id, newCommand), counter |-> counter + 1, ret |-> newCommand]

\* createCommand: the new Map, the new counter and the command returned
createCommand(m, counter, command, t) ==
    LET id == counter
        newCommand == Spread(Spread([id |-> id], command), [createdAt |-> t])
    IN [map |-> MapSet(m, id, newCommand), counter |-> counter + 1, ret |-> newCommand]

\* an updateCommand that stores the supplied fields in place of the record
updateCommandReplacing(m, id, command) ==
    LET existingCommand == MapGet(m, id)
    IN IF existingCommand = <<>> THEN [map |-> m, ret |-> <<>>]
       ELSE LET updatedCommand == Spread([id |-> id], command)
            IN [map |-> MapSet(m, id, updatedCommand), ret |-> <<updatedCommand>>]

\* updateCommand: the new Map and <<>> (undefined) or <<the updated command>>
updateCommand(m, id, command) ==
    LET existingCommand == MapGet(m, id)
    IN IF existingCommand = <<>> THEN [map |-> m, ret |-> <<>>]
       ELSE LET updatedCommand == Spread(existingCommand[1], command)
            IN [map |-> MapSet(m, id, updatedCommand), ret |-> <<updatedCommand>>]

\* a deleteCommand that reports success whatever Map.delete returned
deleteCommandAlwaysTrue(m, id) ==
    LET d == MapDelete(m, id)
    IN [map |-> d.map, ret |-> TRUE]

\* deleteCommand: the new Map and the boolean returned
deleteCommand(m, id) ==
    LET d == MapDelete(m, id)
    IN [map |-> d.map, ret |-> d.had]

getCommand(m, id) == MapGet(m, id)

getCommandByName(m, name) ==
    LET i == IndexOfName(m, name, 1)
    IN IF i = 0 THEN <<>> ELSE <<m[i]>>

getCommands(m) == m

\* updateBotStats: total replace of the singleton
updateBotStats(stats) == <<Spread([id |-> 1], stats)>>

RECURSIVE constructCommands(_, _, _, _)
\* defaultCommands.forEach(cmd => this.createCommand(cmd))
constructCommands(m, counter, k, t) ==
    IF k > Len(defaultCommands) THEN [map |-> m, counter |-> counter, ids |-> <<>>]
    ELSE LET c == createCommand(m, counter, defaultCommands[k], t)
             rest == constructCommands(c.map, c.counter, k + 1, t)
         IN [rest EXCEPT !.ids = <<c.ret.id>> \o @]

Init ==
    LET c == constructCommands(<<>>, 1, 1, 0)
    IN /\ commands = c.map
       /\ commandsIdCounter = c.counter
       /\ logs = <<>>
       /\ logsIdCounter = 1
       /\ botStats = updateBotStats([uptime |-> "0d 0h 0m", servers |-> 0,
                                     commands |-> Len(defaultCommands),
                                     memoryUsage |-> "0 MB", apiLatency |-> 0,
                                     startedAt |-> 0, updatedAt |-> 0])
       /\ now = 0
       /\ bot \in BOOLEAN
       /\ inflight = <<>>
       /\ draining = FALSE
       /\ issued = c.ids
       /\ last = [op |-> "constructor"]
       /\ ops = 0

\* `last` after a step that sends no response
NoResponse == [op |-> "none"]

(***************************************************************************)
(* The clock advances between requests.                                    *)
(***************************************************************************)
Tick ==
    /\ ~draining
    /\ now' = now + 1
    /\ ops' = ops + 1
    /\ last' = NoResponse
    /\ UNCHANGED <<store, bot, inflight, draining, issued>>

(***************************************************************************)
(* parseInt(text): text is the sequence of the parameter's characters.     *)
(* An optional sign, then the longest run of decimal digits; NaN when the  *)
(* run is empty.  Characters after the run are ignored.                    *)
(***************************************************************************)
DigitChars == <<"0", "1", "2", "3", "4", "5", "6", "7", "8", "9">>

IsDigit(c) == \E d \in DOMAIN DigitChars : DigitChars[d] = c

DigitVal(c) == (CHOOSE d \in DOMAIN DigitChars : DigitChars[d] = c) - 1

RECURSIVE ParseDigits(_, _, _)
\* accumulates the digit run starting at position i; acc = -1 while no digit was read
ParseDigits(text, i, acc) ==
    IF i > Len(text) \/ ~IsDigit(text[i]) THEN acc
    ELSE ParseDigits(text, i + 1, (IF acc < 0 THEN 0 ELSE acc) * 10 + DigitVal(text[i]))

parseInt(text) ==
    LET neg == Len(text) > 0 /\ text[1] = "-"
        start == IF Len(text) > 0 /\ text[1] \in {"-", "+"} THEN 2 ELSE 1
        n == ParseDigits(text, start, -1)
    IN IF n < 0 THEN [nan |-> TRUE, val |-> 0]
       ELSE [nan |-> FALSE, val |-> IF neg THEN -n ELSE n]

isNaN(x) == x.nan

(***************************************************************************)
(* Command Registry handlers.  Each makes one storage call, in its first   *)
(* segment; the response is fixed by that call.                            *)
(***************************************************************************)
\* GET /api/commands/:id
GetCommandById(text) ==
    /\ ~draining
    /\ LET id == parseInt(text)
       IN IF isNaN(id)
          THEN last' = [op |-> "GET", text |-> text, status |-> 400,
                        message |-> "Invalid command ID", reached |-> FALSE, pre |-> Snapshot]
          ELSE LET command == getCommand(commands, id.val)
               IN last' = [op |-> "GET", text |-> text, id |-> id.val,
                           status |-> IF command = <<>> THEN 404 ELSE 200,
                           body |-> command, reached |-> TRUE, pre |-> Snapshot]
    /\ ops' = ops + 1
    /\ UNCHANGED <<store, now, bot, inflight, draining, issued>>

\* POST /api/commands
PostCommands(validatedCommand) ==
    /\ ~draining
    /\ LET c == createCommand(commands, commandsIdCounter, validatedCommand, now)
       IN /\ commands' = c.map
          /\ commandsIdCounter' = c.counter
          /\ issued' = Append(issued, c.ret.id)
          /\ last' = [op |-> "POST", status |-> 201, body |-> <<c.ret>>, pre |-> Snapshot]
    /\ ops' = ops + 1
    /\ UNCHANGED <<logs, botStats, logsIdCounter, now, bot, inflight, draining>>

\* PATCH /api/commands/:id
PatchCommand(text, validatedCommand) ==
    /\ ~draining
    /\ LET id == parseInt(text)
       IN IF isNaN(id)
          THEN /\ last' = [op |-> "PATCH", text |-> text, status |-> 400,
                           message |-> "Invalid command ID", reached |-> FALSE,
                           pre |-> Snapshot]
               /\ UNCHANGED commands
          ELSE LET u == updateCommand(commands, id.val, validatedCommand)
               IN /\ commands' = u.map
                  /\ last' = [op |-> "PATCH", text |-> text, id |-> id.val,
                              patch |-> validatedCommand,
                              status |-> IF u.ret = <<>> THEN 404 ELSE 200,
                              body |-> u.ret, reached |-> TRUE, pre |-> Snapshot]
    /\ ops' = ops + 1
    /\ UNCHANGED <<logs, botStats, commandsIdCounter, logsIdCounter, now, bot,
                   inflight, draining, issued>>

\* DELETE /api/commands/:id
DeleteCommand(text) ==
    /\ ~draining
    /\ LET id == parseInt(text)
       IN IF isNaN(id)
          THEN /\ last' = [op |-> "DELETE", text |-> text, status |-> 400,
                           message |-> "Invalid command ID", reached |-> FALSE,
                           pre |-> Snapshot]
               /\ UNCHANGED commands
          ELSE LET d == deleteCommand(commands, id.val)
               IN /\ commands' = d.map
                  /\ last' = [op |-> "DELETE", text |-> text, id |-> id.val,
                              deleted |-> d.ret,
                              status |-> IF ~d.ret THEN 404 ELSE 204,
                              body |-> <<>>, reached |-> TRUE, pre |-> Snapshot]
    /\ ops' = ops + 1
    /\ UNCHANGED <<logs, botStats, commandsIdCounter, logsIdCounter, now, bot,
                   inflight, draining, issued>>

(***************************************************************************)
(* Logs.                                                                   *)
(***************************************************************************)
\* a createLog that puts the new entry in front (unshift in place of push)
createLogInFront(ls, counter, log, t) ==
    LET id == counter
        newLog == Spread(Spread([id |-> id], log), [timestamp |-> t])
    IN [logs |-> <<newLog>> \o ls, counter |-> counter + 1, ret |-> newLog]

\* createLog: the new array, the new counter and the log returned
createLog(ls, counter, log, t) ==
    LET id == counter
        newLog == Spread(Spread([id |-> id], log), [timestamp |-> t])
    IN [logs |-> Append(ls, newLog), counter |-> counter + 1, ret |-> newLog]

\* one step of a stable sort with the comparator b.timestamp - a.timestamp:
\* x goes behind every entry that is not older than it
InsertByTimestampDesc(sorted, x) ==
    LET k == Cardinality({i \in DOMAIN sorted : sorted[i].timestamp >= x.timestamp})
    IN SubSeq(sorted, 1, k) \o <<x>> \o SubSeq(sorted, k + 1, Len(sorted))

RECURSIVE SortByTimestampDesc(_)
\* [...this.logs].sort((a, b) => b.timestamp - a.timestamp): a sorted copy
SortByTimestampDesc(ls) ==
    IF ls = <<>> THEN <<>>
    ELSE InsertByTimestampDesc(SortByTimestampDesc(SubSeq(ls, 1, Len(ls) - 1)), ls[Len(ls)])

\* Array.prototype.slice(0, end) for an integer end
SliceFromStart(s, end) ==
    LET stop == IF end < 0 THEN Max(Len(s) + end, 0) ELSE Min(end, Len(s))
    IN SubSeq(s, 1, stop)

\* truthiness of an optional number: undefined, NaN and 0 are falsy
Truthy(limit) == limit # <<>> /\ ~limit[1].nan /\ limit[1].val # 0

\* getLogs(limit?): limit is <<>> (undefined) or <<number>>
getLogs(ls, limit) ==
    LET sortedLogs == SortByTimestampDesc(ls)
    IN IF Truthy(limit) THEN SliceFromStart(sortedLogs, limit[1].val) ELSE sortedLogs

\* GET /api/logs?limit=N: query is <<>> (no limit given) or <<text>>
GetLogs(query) ==
    /\ ~draining
    /\ LET limit == IF query # <<>> /\ query[1] # <<>> THEN <<parseInt(query[1])>> ELSE <<>>
       IN last' = [op |-> "GETLOGS", query |-> query, limit |-> limit, status |-> 200,
                   body |-> getLogs(logs, limit), pre |-> Snapshot]
    /\ ops' = ops + 1
    /\ UNCHANGED <<store, now, bot, inflight, draining, issued>>

\* POST /api/logs
PostLogs(validatedLog) ==
    /\ ~draining
    /\ LET c == createLog(logs, logsIdCounter, validatedLog, now)
       IN /\ logs' = c.logs
          /\ logsIdCounter' = c.counter
          /\ last' = [op |-> "POSTLOG", status |-> 201, body |-> <<c.ret>>, pre |-> Snapshot]
    /\ ops' = ops + 1
    /\ UNCHANGED <<commands, botStats, commandsIdCounter, now, bot, inflight, draining, issued>>

\* process.on("uncaughtException") and process.on("unhandledRejection")
ProcessError(prefix) ==
    /\ ~draining
    /\ LET c == createLog(logs, logsIdCounter,
                          [eventType |-> "Error", server |-> "-", user |-> "-",
                           details |-> <<prefix, "reason">>], now)
       IN /\ logs' = c.logs
          /\ logsIdCounter' = c.counter
          /\ last' = [op |-> "ERROR", body |-> <<c.ret>>, pre |-> Snapshot]
    /\ ops' = ops + 1
    /\ UNCHANGED <<commands, botStats, commandsIdCounter, now, bot, inflight, draining, issued>>

(***************************************************************************)
(* Handlers with several awaits.  A suspended handler is a record of its   *)
(* locals in `inflight`; Finish removes it once it has responded.          *)
(***************************************************************************)
Suspend(h) ==
    /\ inflight' = Append(inflight, h)
    /\ UNCHANGED draining

Continue(i, h) ==
    /\ inflight' = [inflight EXCEPT ![i] = h]
    /\ draining' = TRUE

Finish(i) ==
    /\ inflight' = Remove(inflight, i)
    /\ draining' = (Len(inflight) > 1)

(***************************************************************************)
(* POST /api/test-command.  The command text is its optional leading       *)
(* slash and its words (the pieces between single spaces).                 *)
(***************************************************************************)
IsEmptyText(command) == ~command.slash /\ command.words = <<>>

\* command.startsWith('/') ? command.substring(1).split(' ')[0] : command.split(' ')[0]
CommandName(command) == IF command.words = <<>> THEN "" ELSE command.words[1]

\* Math.floor(Math.random() * 50) + 20: the ends of the range
Latencies == {20, 69}

Or(v, dflt) == IF v = 0 THEN dflt ELSE v

RECURSIVE HelpLines(_)
\* commands.filter(c => c.active).map(c => `/${c.name} - ${c.description}`)
HelpLines(cmds) ==
    IF cmds = <<>> THEN <<>>
    ELSE LET c == Head(cmds)
         IN (IF c.active THEN << <<"/", c.name, " - ", c.description>> >> ELSE <<>>)
            \o HelpLines(Tail(cmds))

RECURSIVE AllLines(_)
\* the same listing without the filter on active
AllLines(cmds) ==
    IF cmds = <<>> THEN <<>>
    ELSE << <<"/", Head(cmds).name, " - ", Head(cmds).description>> >> \o AllLines(Tail(cmds))

\* a help listing that forgets the filter
helpResponseUnfiltered(cmds) == [head |-> "Available commands:", lines |-> AllLines(cmds)]

\* "Available commands:\n" + the lines joined by "\n"
helpResponse(cmds) == [head |-> "Available commands:", lines |-> HelpLines(cmds)]

uptimeResponse(stats) ==
    [head |-> "Bot has been online for ",
     uptime |-> IF stats = <<>> THEN "unknown" ELSE stats[1].uptime]

statsResponse(stats) ==
    [head |-> "Bot Stats:",
     servers |-> IF stats = <<>> THEN 0 ELSE Or(stats[1].servers, 0),
     commands |-> IF stats = <<>> THEN 0 ELSE Or(stats[1].commands, 0),
     memoryUsage |-> IF stats = <<>> THEN "0 MB" ELSE stats[1].memoryUsage,
     apiLatency |-> IF stats = <<>> THEN 0 ELSE Or(stats[1].apiLatency, 0)]

TestLog(command) ==
    [eventType |-> "Test", server |-> "Dashboard", user |-> "User",
     details |-> <<"Tested command: ", command>>]

\* the createLog call of the handler i, which then awaits it with `response` ready
TestCreateLog(i, h, response) ==
    LET c == createLog(logs, logsIdCounter, TestLog(h.command), now)
    IN /\ logs' = c.logs
       /\ logsIdCounter' = c.counter
       /\ Continue(i, [h EXCEPT !.pc = "logged", !.response = response,
                                !.logged = Append(@, c.ret)])

\* from the request to the await of getCommandByName
TestCommandStart(command) ==
    /\ ~draining
    /\ Len(inflight) < MaxInflight
    /\ IF IsEmptyText(command)
       THEN /\ last' = [op |-> "TEST", command |-> command, status |-> 400,
                        message |-> "Command is required", logged |-> <<>>]
            /\ UNCHANGED inflight
       ELSE /\ Suspend([kind |-> "test", pc |-> "lookup", command |-> command,
                        commandName |-> CommandName(command),
                        cmd |-> getCommandByName(commands, CommandName(command)),
                        read |-> <<>>, response |-> <<>>, logged |-> <<>>])
            /\ last' = NoResponse
    /\ ops' = ops + 1
    /\ UNCHANGED <<store, now, bot, draining, issued>>

\* after getCommandByName: the 404, or the switch up to its next await
TestCommandLookedUp(i) ==
    /\ i \in DOMAIN inflight
    /\ inflight[i].kind = "test"
    /\ inflight[i].pc = "lookup"
    /\ LET h == inflight[i]
       IN IF h.cmd = <<>>
          THEN /\ last' = [op |-> "TEST", command |-> h.command, status |-> 404,
                           message |-> <<"Command '", h.commandName, "' not found">>,
                           response |-> <<"Unknown command: ", h.commandName>>,
                           logged |-> h.logged]
               /\ Finish(i)
               /\ UNCHANGED <<logs, logsIdCounter>>
          ELSE /\ last' = NoResponse
               /\ CASE h.commandName = "ping" ->
                         \E latency \in Latencies :
                             TestCreateLog(i, h, [head |-> "Pong!", latency |-> latency])
                    [] h.commandName = "help" ->
                         /\ Continue(i, [h EXCEPT !.pc = "help",
                                                  !.read = getCommands(commands)])
                         /\ UNCHANGED <<logs, logsIdCounter>>
                    [] h.commandName \in {"uptime", "stats"} ->
                         /\ Continue(i, [h EXCEPT !.pc = h.commandName, !.read = botStats])
                         /\ UNCHANGED <<logs, logsIdCounter>>
                    [] OTHER ->
                         TestCreateLog(i, h, [head |-> "Executed command: ",
                                              command |-> h.command])
    /\ UNCHANGED <<commands, botStats, commandsIdCounter, now, bot, issued, ops>>

\* after getCommands or getBotStats: the response text, then createLog
TestCommandRead(i) ==
    /\ i \in DOMAIN inflight
    /\ inflight[i].kind = "test"
    /\ inflight[i].pc \in {"help", "uptime", "stats"}
    /\ last' = NoResponse
    /\ LET h == inflight[i]
       IN TestCreateLog(i, h, CASE h.pc = "help" -> helpResponse(h.read)
                                [] h.pc = "uptime" -> uptimeResponse(h.read)
                                [] OTHER -> statsResponse(h.read))
    /\ UNCHANGED <<commands, botStats, commandsIdCounter, now, bot, issued, ops>>

\* after createLog: res.json({ message: "Command executed", response })
TestCommandRespond(i) ==
    /\ i \in DOMAIN inflight
    /\ inflight[i].kind = "test"
    /\ inflight[i].pc = "logged"
    /\ LET h == inflight[i]
       IN last' = [op |-> "TEST", command |-> h.command, status |-> 200,
                   message |-> "Command executed", response |-> h.response,
                   commandName |-> h.commandName, logged |-> h.logged]
    /\ Finish(i)
    /\ UNCHANGED <<store, now, bot, issued, ops>>

(***************************************************************************)
(* POST /api/restart.                                                      *)
(***************************************************************************)
RestartLog ==
    [eventType |-> "System", server |-> "-", user |-> "-",
     details |-> "Bot restart requested"]

\* what the collaborator and the process report
GuildCounts == {2}
Pings == {42}
HeapUsages == {"17 MB"}

\* a restart that looks for the collaborator before it logs
RestartStartCheckingFirst ==
    /\ ~draining
    /\ Len(inflight) < MaxInflight
    /\ IF ~bot
       THEN /\ Suspend([kind |-> "restart", pc |-> "logged", logged |-> <<>>,
                        written |-> <<>>, count |-> 0, started |-> 0, pre |-> Snapshot])
            /\ UNCHANGED <<logs, logsIdCounter>>
       ELSE LET c == createLog(logs, logsIdCounter, RestartLog, now)
            IN /\ logs' = c.logs
               /\ logsIdCounter' = c.counter
               /\ Suspend([kind |-> "restart", pc |-> "logged", logged |-> <<c.ret>>,
                           written |-> <<>>, count |-> 0, started |-> 0,
                           pre |-> Snapshot])
    /\ ops' = ops + 1
    /\ last' = NoResponse
    /\ UNCHANGED <<commands, botStats, commandsIdCounter, now, bot, draining, issued>>

\* from the request to the await of createLog
RestartStart ==
    /\ ~draining
    /\ Len(inflight) < MaxInflight
    /\ LET c == createLog(logs, logsIdCounter, RestartLog, now)
       IN /\ logs' = c.logs
          /\ logsIdCounter' = c.counter
          /\ Suspend([kind |-> "restart", pc |-> "logged", logged |-> <<c.ret>>,
                      written |-> <<>>, count |-> 0, started |-> 0, pre |-> Snapshot])
    /\ ops' = ops + 1
    /\ last' = NoResponse
    /\ UNCHANGED <<commands, botStats, commandsIdCounter, now, bot, draining, issued>>

\* after createLog: the 503, or the stats record up to the await of getCommands
RestartLogged(i) ==
    /\ i \in DOMAIN inflight
    /\ inflight[i].kind = "restart"
    /\ inflight[i].pc = "logged"
    /\ LET h == inflight[i]
       IN IF ~bot
          THEN /\ last' = [op |-> "RESTART", status |-> 503,
                           message |-> "Bot is not available",
                           logged |-> h.logged, written |-> h.written, pre |-> h.pre]
               /\ Finish(i)
          ELSE /\ Continue(i, [h EXCEPT !.pc = "counted", !.started = now,
                                        !.count = Len(getCommands(commands))])
               /\ last' = NoResponse
    /\ UNCHANGED <<store, now, bot, issued, ops>>

\* after getCommands: updateBotStats
RestartCounted(i) ==
    /\ i \in DOMAIN inflight
    /\ inflight[i].kind = "restart"
    /\ inflight[i].pc = "counted"
    /\ \E guilds \in GuildCounts, ping \in Pings, heap \in HeapUsages :
          LET h == inflight[i]
              stats == updateBotStats([uptime |-> "0d 0h 0m", servers |-> guilds,
                                       commands |-> h.count, memoryUsage |-> heap,
                                       apiLatency |-> ping, startedAt |-> h.started,
                                       updatedAt |-> h.started])
          IN /\ botStats' = stats
             /\ Continue(i, [h EXCEPT !.pc = "updated", !.written = Append(@, stats[1])])
    /\ last' = NoResponse
    /\ UNCHANGED <<commands, logs, commandsIdCounter, logsIdCounter, now, bot, issued, ops>>

\* after updateBotStats: res.json({ message: "Bot restarted successfully" })
RestartRespond(i) ==
    /\ i \in DOMAIN inflight
    /\ inflight[i].kind = "restart"
    /\ inflight[i].pc = "updated"
    /\ LET h == inflight[i]
       IN last' = [op |-> "RESTART", status |-> 200,
                   message |-> "Bot restarted successfully",
                   logged |-> h.logged, written |-> h.written, pre |-> h.pre]
    /\ Finish(i)
    /\ UNCHANGED <<store, now, bot, issued, ops>>

\* the continuations of the suspended test-command handlers
ResumeTest ==
    \E i \in 1..MaxInflight :
        \/ TestCommandLookedUp(i)
        \/ TestCommandRead(i)
        \/ TestCommandRespond(i)

\* the continuations of the suspended restart handlers
ResumeRestart ==
    \E i \in 1..MaxInflight :
        \/ RestartLogged(i)
        \/ RestartCounted(i)
        \/ RestartRespond(i)

(***************************************************************************)
(* Inputs.                                                                 *)
(***************************************************************************)
\* request bodies that pass insertCommandSchema
CreateInputs ==
    { [name |-> n, description |-> "d", usage |-> "/echo", active |-> a] :
        n \in {"ping", "echo"}, a \in BOOLEAN }

PatchVal == [name |-> "echo", description |-> "d", usage |-> "/echo", active |-> FALSE]

\* request bodies that pass insertCommandSchema.partial(): any subset of the fields
AllPatches == { [f \in S |-> PatchVal[f]] : S \in SUBSET InsertFields }

\* renames and activity switches
NamePatches == { [name |-> "ping"], [name |-> "echo"], [active |-> FALSE] }

\* the decimal texts of the ids in use, and of the next one
IdTexts == { <<DigitChars[i + 1]>> : i \in 1..Min(commandsIdCounter, 9) }

(***************************************************************************)
(* The command registry: create, rename, delete and read commands.         *)
(***************************************************************************)
Budget(n) == ops < n

NextRegistry ==
    \/ Budget(MaxOps) /\ Tick
    \/ \E c \in CreateInputs : Budget(MaxOps) /\ PostCommands(c)
    \/ \E t \in IdTexts, p \in NamePatches : Budget(MaxOps) /\ PatchCommand(t, p)
    \/ \E t \in IdTexts : Budget(MaxOps) /\ DeleteCommand(t)
    \/ \E t \in IdTexts : Budget(MaxOps) /\ GetCommandById(t)

Spec == Init /\ [][NextRegistry]_vars

(***************************************************************************)
(* Updates: every subset of the fields, on every id.                       *)
(***************************************************************************)
NextUpdate ==
    \/ Budget(MaxUpdateOps) /\ Tick
    \/ \E c \in CreateInputs : Budget(MaxUpdateOps) /\ PostCommands(c)
    \/ \E t \in IdTexts, p \in AllPatches : Budget(MaxUpdateOps) /\ PatchCommand(t, p)
    \/ \E t \in IdTexts : Budget(MaxUpdateOps) /\ DeleteCommand(t)

SpecUpdate == Init /\ [][NextUpdate]_vars

(***************************************************************************)
(* The :id path parameter: every text over ParamChars up to MaxLen.        *)
(***************************************************************************)
ParamChars == {"1", "5", "a", "-"}

ParamTexts == UNION { [1..n -> ParamChars] : n \in 1..MaxLen }

NextParam ==
    \/ Budget(MaxParamOps) /\ Tick
    \/ \E c \in CreateInputs : Budget(MaxParamOps) /\ PostCommands(c)
    \/ \E t \in ParamTexts : Budget(MaxParamOps) /\ GetCommandById(t)
    \/ \E t \in ParamTexts, p \in NamePatches : Budget(MaxParamOps) /\ PatchCommand(t, p)
    \/ \E t \in ParamTexts : Budget(MaxParamOps) /\ DeleteCommand(t)

SpecParam == Init /\ [][NextParam]_vars

(***************************************************************************)
(* The event log: every writer of logs, and its reader.                    *)
(***************************************************************************)
LogInputs ==
    { [eventType |-> "Command", server |-> "s", user |-> "u", details |-> "x"] }

LimitChars == {"0", "2", "a"}

\* no limit, the empty text, and every text over LimitChars up to MaxLimitLen
LimitQueries ==
    {<<>>} \union { <<t>> : t \in UNION { [1..n -> LimitChars] : n \in 0..MaxLimitLen } }

EchoInputs ==
    { [name |-> "echo", description |-> "d", usage |-> "/echo", active |-> TRUE] }

Text(slash, words) == [slash |-> slash, words |-> words]

NextLogs ==
    \/ Budget(MaxLogOps) /\ Tick
    \/ \E l \in LogInputs : Budget(MaxLogOps) /\ PostLogs(l)
    \/ \E e \in {"Uncaught Exception: ", "Unhandled Rejection: "} :
          Budget(MaxLogOps) /\ ProcessError(e)
    \/ \E q \in LimitQueries : Budget(MaxLogOps) /\ GetLogs(q)
    \/ Budget(MaxLogOps) /\ RestartStart
    \/ \E c \in EchoInputs : Budget(MaxLogOps) /\ PostCommands(c)
    \/ \E c \in {Text(TRUE, <<"stats">>)} : Budget(MaxLogOps) /\ TestCommandStart(c)
    \/ ResumeRestart
    \/ ResumeTest

SpecLogs == Init /\ [][NextLogs]_vars

(***************************************************************************)
(* The simulator, next to the registry operations it depends on.           *)
(***************************************************************************)
TestTexts ==
    { Text(TRUE, <<"ping">>), Text(FALSE, <<"help">>), Text(TRUE, <<"uptime">>),
      Text(TRUE, <<"stats">>), Text(TRUE, <<"echo", "hi">>),
      Text(TRUE, <<"nonexistent">>), Text(FALSE, <<>>) }

NextSim ==
    \/ \E c \in EchoInputs : Budget(MaxSimOps) /\ PostCommands(c)
    \/ \E t \in IdTexts : Budget(MaxSimOps) /\ DeleteCommand(t)
    \/ \E c \in TestTexts : Budget(MaxSimOps) /\ TestCommandStart(c)
    \/ ResumeTest

SpecSim == Init /\ [][NextSim]_vars

HelpTexts == { Text(TRUE, <<"help">>) }

\* a deactivation, and an update that leaves the command active
HelpPatches == { [active |-> FALSE], [description |-> "d"] }

NextHelp ==
    \/ \E c \in EchoInputs : Budget(MaxHelpOps) /\ PostCommands(c)
    \/ \E t \in IdTexts, p \in HelpPatches : Budget(MaxHelpOps) /\ PatchCommand(t, p)
    \/ \E t \in IdTexts : Budget(MaxHelpOps) /\ DeleteCommand(t)
    \/ \E c \in HelpTexts : Budget(MaxHelpOps) /\ TestCommandStart(c)
    \/ ResumeTest

SpecHelp == Init /\ [][NextHelp]_vars

(***************************************************************************)
(* Properties.                                                             *)
(***************************************************************************)
Ids(m) == { m[i].id : i \in DOMAIN m }

Others(m, id) == SelectSeq(m, LAMBDA e : e.id # id)

RestOfStoreUnchanged(pre) ==
    /\ logs = pre.logs
    /\ botStats = pre.botStats
    /\ commandsIdCounter = pre.commandsIdCounter
    /\ logsIdCounter = pre.logsIdCounter

\* C1: every createCommand returns an id strictly greater than every id returned
\* before it (so no id is reused, also not the id of a deleted command), and no
\* two stored commands share an id.
C1_IdsStrictlyIncreasing ==
    /\ \A i, j \in DOMAIN issued : i < j => issued[i] < issued[j]
    /\ \A i, j \in DOMAIN commands : i # j => commands[i].id # commands[j].id
    /\ Ids(commands) \subseteq Range(issued)

\* a command was created after a created command had been deleted
C1_Witness ==
    /\ last.op = "POST"
    /\ Len(issued) > Len(defaultCommands) + 1
    /\ \E k \in Range(issued) : k \notin Ids(commands)

\* C2: no two stored commands have the same name.
C2_NamesUnique ==
    \A i, j \in DOMAIN commands : i # j => commands[i].name # commands[j].name

\* C7: deleteCommand(id) returns true exactly when a command with that id was
\* stored, and then removes only that command (DELETE answers 204, no body);
\* otherwise it returns false, the store is unchanged and DELETE answers 404.
C7_DeleteExact ==
    (last.op = "DELETE" /\ last.reached) =>
        LET had == last.id \in Ids(last.pre.commands)
        IN /\ last.deleted <=> had
           /\ RestOfStoreUnchanged(last.pre)
           /\ had => /\ commands = Others(last.pre.commands, last.id)
                      /\ Len(commands) = Len(last.pre.commands) - 1
                      /\ last.status = 204
                      /\ last.body = <<>>
           /\ ~had => /\ commands = last.pre.commands
                       /\ last.status = 404

\* a DELETE of an id that an earlier DELETE had removed
C7_Witness ==
    /\ last.op = "DELETE"
    /\ last.reached
    /\ ~last.deleted
    /\ last.id \in Range(issued)
    /\ Len(commands) < Len(defaultCommands)

\* C6: updateCommand on an existing command sets the supplied fields and keeps
\* every other field (id and createdAt among them), every other command, the
\* command's position, the counters, the logs and the stats.
C6_UpdateFrame ==
    (last.op = "PATCH" /\ last.reached /\ last.status = 200) =>
        LET i == IndexOfId(last.pre.commands, last.id, 1)
            old == last.pre.commands[i]
            new == commands[i]
        IN /\ i > 0
           /\ Len(commands) = Len(last.pre.commands)
           /\ DOMAIN new = DOMAIN old
           /\ \A f \in DOMAIN old :
                 new[f] = IF f \in DOMAIN last.patch THEN last.patch[f] ELSE old[f]
           /\ new.id = old.id
           /\ new.createdAt = old.createdAt
           /\ \A k \in DOMAIN commands : k # i => commands[k] = last.pre.commands[k]
           /\ last.body = <<new>>
           /\ RestOfStoreUnchanged(last.pre)

\* updateCommand(id, {active: false}) has switched off an active command
\* created at an earlier time
C6_Witness ==
    /\ last.op = "PATCH"
    /\ last.reached
    /\ last.status = 200
    /\ last.patch = [active |-> FALSE]
    /\ \E i \in DOMAIN commands :
          /\ commands[i].id = last.id
          /\ last.pre.commands[i].active
          /\ ~commands[i].active
          /\ commands[i].createdAt < now

IsDecimal(text) == Len(text) > 0 /\ \A k \in DOMAIN text : IsDigit(text[k])

\* C4: an id parameter that is not the decimal text of a non-negative integer
\* is answered 400 "Invalid command ID" without the store being read or
\* modified; only non-negative integers reach the store.
C4_NonDecimalRejected ==
    (last.op \in {"GET", "PATCH", "DELETE"}) =>
        /\ ~IsDecimal(last.text) =>
              /\ last.status = 400
              /\ last.message = "Invalid command ID"
              /\ ~last.reached
              /\ commands = last.pre.commands
        /\ last.reached => last.id >= 0

\* C3: every test-command request that carries a command text has appended
\* exactly one "Test" log entry recording that text when its response is sent,
\* whichever response that is.
C3_SimulatorAlwaysLogs ==
    (last.op = "TEST" /\ ~IsEmptyText(last.command)) =>
        /\ Len(last.logged) = 1
        /\ last.logged[1].eventType = "Test"
        /\ last.logged[1].details = <<"Tested command: ", last.command>>
        /\ last.logged[1] \in Range(logs)

IsSortedDesc(ls) == \A i, j \in DOMAIN ls : i < j => ls[i].timestamp >= ls[j].timestamp

\* C5: getLogs(limit) with a non-negative integer limit (0 included) returns
\* the first min(limit, n) entries of the logs in descending timestamp order;
\* without a limit it returns all n logs in that order.
C5_GetLogsMostRecent ==
    (last.op = "GETLOGS") =>
        LET n == Len(logs)
            sorted == SortByTimestampDesc(logs)
        IN /\ IsSortedDesc(last.body)
           /\ last.limit = <<>> => last.body = sorted
           /\ (last.limit # <<>> /\ ~last.limit[1].nan /\ last.limit[1].val >= 0) =>
                 last.body = SubSeq(sorted, 1, Min(last.limit[1].val, n))

\* C8: a step never removes or changes an existing log entry, never shortens
\* the log, and the ids of the entries increase strictly in the order in which
\* createLog assigned them.
C8_LogAppendOnly ==
    [][ /\ Len(logs') >= Len(logs)
        /\ \A i \in DOMAIN logs : logs'[i] = logs[i]
        /\ \A i, j \in DOMAIN logs' : i < j => logs'[i].id < logs'[j].id
        /\ \A i \in DOMAIN logs' : logs'[i].id < logsIdCounter' ]_vars

\* the log is read back after two different writers have appended to it
C8_Witness ==
    /\ last.op = "GETLOGS"
    /\ Len(logs) >= 2
    /\ Len(last.body) >= 2
    /\ \E i, j \in DOMAIN logs : logs[i].eventType # logs[j].eventType

\* C9: the help response lists exactly the active commands, one
\* "/name - description" line each, in store order, and store order is the
\* order of creation.
C9_HelpListsActive ==
    (last.op = "TEST" /\ last.status = 200 /\ last.commandName = "help") =>
        LET act == SelectSeq(commands, LAMBDA c : c.active)
            lines == last.response.lines
        IN /\ Len(lines) = Len(act)
           /\ \A k \in DOMAIN act :
                 lines[k] = <<"/", act[k].name, " - ", act[k].description>>
           /\ \A i, j \in DOMAIN commands : i < j => commands[i].id < commands[j].id

\* help answers after a deactivation, a deletion and a creation: the created
\* command is the last line
C9_Witness ==
    /\ last.op = "TEST"
    /\ last.status = 200
    /\ last.commandName = "help"
    /\ \E i \in DOMAIN commands : ~commands[i].active
    /\ \E k \in Range(issued) : k \notin Ids(commands)
    /\ commands # <<>>
    /\ commands[Len(commands)].id > Len(defaultCommands)
    /\ last.response.lines # <<>>
    /\ last.response.lines[Len(last.response.lines)] = <<"/", "echo", " - ", "d">>

====
